---- MODULE Spec2Model ----
(***************************************************************************)
(* Query compiler and result aggregator of the product search services:    *)
(* search_api.py (hybrid search, /autocomplete, /suggest) and              *)
(* catalog_search.py (catalog /search, /autocomplete).                     *)
(*                                                                         *)
(* Strings the code inspects (strip, lower, startswith, int(), float())    *)
(* are sequences of one-character strings; an optional value is a sequence *)
(* of length 0 (absent / None) or 1.  A Python dict is a record; a key the  *)
(* dict may lack is a field holding an optional value.                     *)
(***************************************************************************)
EXTENDS Integers, Sequences, FiniteSets, TLC

\* ------------------------------------------------------------------------
\* Bounds of the model
\* ------------------------------------------------------------------------
\* page numbers requested: -MaxPage..MaxPage
MaxPage == 2
\* page sizes requested above the cap: 101..100+MaxOver
MaxOver == 2
\* number of query-string parameters outside the documented ones
MaxExtra == 2
\* total hit counts the engine reports: 0..MaxTotal (and 97)
MaxTotal == 1

\* ------------------------------------------------------------------------
\* Python string and number primitives
\* ------------------------------------------------------------------------
None == <<>>

Some(v) == <<v>>

Digits == <<"0", "1", "2", "3", "4", "5", "6", "7", "8", "9">>

UpperCase == <<"A", "B", "C", "D", "E", "F", "G", "H", "I", "J", "K", "L", "M",
               "N", "O", "P", "Q", "R", "S", "T", "U", "V", "W", "X", "Y", "Z">>

LowerCase == <<"a", "b", "c", "d", "e", "f", "g", "h", "i", "j", "k", "l", "m",
               "n", "o", "p", "q", "r", "s", "t", "u", "v", "w", "x", "y", "z">>

Whitespace == {" ", "\t"}

IsDigit(c) == \E i \in 1..10 : Digits[i] = c

DigitVal(c) == (CHOOSE i \in 1..10 : Digits[i] = c) - 1

\* lower() that leaves the letters as they are
lower_identity(s) == s

\* str.lower()
lower(s) ==
    [i \in 1..Len(s) |->
        IF \E k \in 1..26 : UpperCase[k] = s[i]
        THEN LowerCase[CHOOSE k \in 1..26 : UpperCase[k] = s[i]]
        ELSE s[i]]

\* strip() that leaves the text as it is
strip_identity(s) == s

\* str.strip(): drops the leading and the trailing whitespace
strip(s) ==
    LET keep == {i \in 1..Len(s) : s[i] \notin Whitespace}
    IN  IF keep = {} THEN <<>>
        ELSE LET lo == CHOOSE i \in keep : \A j \in keep : i <= j
                 hi == CHOOSE i \in keep : \A j \in keep : j <= i
             IN  SubSeq(s, lo, hi)

\* str.startswith(prefix)
startswith(s, prefix) ==
    /\ Len(prefix) <= Len(s)
    /\ SubSeq(s, 1, Len(prefix)) = prefix

RECURSIVE DigitsValue(_)
DigitsValue(ds) ==
    IF Len(ds) = 0 THEN 0
    ELSE 10 * DigitsValue(SubSeq(ds, 1, Len(ds) - 1)) + DigitVal(ds[Len(ds)])

AllDigits(ds) == Len(ds) > 0 /\ \A i \in 1..Len(ds) : IsDigit(ds[i])

\* int(text): optional surrounding whitespace, optional sign, decimal digits;
\* None stands for the ValueError
int_digits(negative, ds) ==
    IF ~AllDigits(ds) THEN None
    ELSE IF negative THEN Some(0 - DigitsValue(ds))
    ELSE Some(DigitsValue(ds))

int_stripped(t) ==
    IF Len(t) > 0 /\ t[1] \in {"+", "-"}
    THEN int_digits(t[1] = "-", Tail(t))
    ELSE int_digits(FALSE, t)

int(text) == int_stripped(strip(text))

\* floor division of Python's // operator; d # 0
FloorDiv(n, d) ==
    LET an == IF n < 0 THEN 0 - n ELSE n
        ad == IF d < 0 THEN 0 - d ELSE d
        qt == an \div ad
        exact == (an % ad) = 0
    IN  IF (n < 0) = (d < 0) THEN qt
        ELSE IF exact THEN 0 - qt ELSE 0 - qt - 1

\* min() that keeps its first argument
min_first(a, b) == a

min(a, b) == IF a <= b THEN a ELSE b

\* str(n) for the integers the requests carry
RECURSIVE NatToStr(_)
NatToStr(n) ==
    IF n < 10 THEN <<Digits[n + 1]>>
    ELSE NatToStr(n \div 10) \o <<Digits[(n % 10) + 1]>>

IntToStr(n) == IF n < 0 THEN <<"-">> \o NatToStr(0 - n) ELSE NatToStr(n)

\* float(text): None stands for the ValueError.  A number is kept as its
\* digits n and the count e of fractional digits (n / 10^e).
float_digits(negative, ip, fp) ==
    IF ~AllDigits(ip \o fp) THEN None
    ELSE Some([k |-> "num",
               n |-> IF negative THEN 0 - DigitsValue(ip \o fp)
                     ELSE DigitsValue(ip \o fp),
               e |-> Len(fp)])

float_decimal(negative, u, dots) ==
    IF Cardinality(dots) > 1 THEN None
    ELSE IF dots = {} THEN float_digits(negative, u, <<>>)
    ELSE LET dot == CHOOSE i \in dots : TRUE
         IN  float_digits(negative, SubSeq(u, 1, dot - 1),
                          SubSeq(u, dot + 1, Len(u)))

float_unsigned(negative, u) ==
    IF u = <<"n", "a", "n">>
    THEN Some([k |-> "nan", n |-> 0, e |-> 0])
    ELSE IF u \in {<<"i", "n", "f">>,
                   <<"i", "n", "f", "i", "n", "i", "t", "y">>}
    THEN Some([k |-> IF negative THEN "-inf" ELSE "inf", n |-> 0, e |-> 0])
    ELSE float_decimal(negative, u, {i \in 1..Len(u) : u[i] = "."})

float_stripped(t) ==
    IF Len(t) > 0 /\ t[1] \in {"+", "-"}
    THEN float_unsigned(t[1] = "-", Tail(t))
    ELSE float_unsigned(FALSE, t)

float(text) == float_stripped(lower(strip(text)))

\* ------------------------------------------------------------------------
\* request.args (werkzeug MultiDict)
\* ------------------------------------------------------------------------

\* MultiDict.get(key, default, type): the default when the key is missing
\* or when type(value) raises ValueError.  default is an optional value.
or_default(rv, default) == IF rv = None THEN default ELSE rv

get(value, default, type) ==
    IF value = None THEN default
    ELSE IF type = "int" THEN or_default(int(value[1]), default)
    ELSE IF type = "float" THEN or_default(float(value[1]), default)
    ELSE Some(value[1])

\* items(multi=True): every (key, value) pair
items_multi(pairs) == pairs

\* MultiDict.items(): one (key, first value) pair per distinct key, in the
\* order the keys first appear
RECURSIVE items(_)
items(pairs) ==
    IF Len(pairs) = 0 THEN <<>>
    ELSE LET rest == items(SubSeq(pairs, 1, Len(pairs) - 1))
             last == pairs[Len(pairs)]
         IN  IF \E i \in 1..Len(rest) : rest[i][1] = last[1]
             THEN rest
             ELSE Append(rest, last)

\* ------------------------------------------------------------------------
\* String literals
\* ------------------------------------------------------------------------
s_true == <<"t", "r", "u", "e">>

s_relevance == <<"r", "e", "l", "e", "v", "a", "n", "c", "e">>

s_price_asc == <<"p", "r", "i", "c", "e", "_", "a", "s", "c">>

s_price_desc == <<"p", "r", "i", "c", "e", "_", "d", "e", "s", "c">>

s_newest == <<"n", "e", "w", "e", "s", "t">>

s_distance == <<"d", "i", "s", "t", "a", "n", "c", "e">>

s_50km == <<"5", "0", "k", "m">>

s_attr_ == <<"a", "t", "t", "r", "_">>

\* ------------------------------------------------------------------------
\* Requests: the query string of one HTTP request.  Each documented
\* parameter holds its first raw value (None when the key is missing),
\* category and tag hold all their values (getlist), and extra holds the
\* remaining (key, value) pairs in query-string order.
\* ------------------------------------------------------------------------
NoArgs ==
    [q |-> None, category_id |-> None, status |-> None, min_price |-> None,
     max_price |-> None, in_stock |-> None, sort |-> None, page |-> None,
     size |-> None, lat |-> None, lon |-> None, distance |-> None,
     category |-> <<>>, tag |-> <<>>, extra |-> <<>>]

\* the keys of the documented parameters a request carries
ArgKeys(args) ==
    LET key(present, name) == IF present THEN <<<<name, <<>>>>>> ELSE <<>>
    IN  key(args.q # None, <<"q">>)
        \o key(args.category_id # None,
               <<"c", "a", "t", "e", "g", "o", "r", "y", "_", "i", "d">>)
        \o key(args.status # None, <<"s", "t", "a", "t", "u", "s">>)
        \o key(args.min_price # None,
               <<"m", "i", "n", "_", "p", "r", "i", "c", "e">>)
        \o key(args.max_price # None,
               <<"m", "a", "x", "_", "p", "r", "i", "c", "e">>)
        \o key(args.in_stock # None,
               <<"i", "n", "_", "s", "t", "o", "c", "k">>)
        \o key(args.sort # None, <<"s", "o", "r", "t">>)
        \o key(args.page # None, <<"p", "a", "g", "e">>)
        \o key(args.size # None, <<"s", "i", "z", "e">>)
        \o key(args.lat # None, <<"l", "a", "t">>)
        \o key(args.lon # None, <<"l", "o", "n">>)
        \o key(args.distance # None, s_distance)
        \o key(args.category # <<>>,
               <<"c", "a", "t", "e", "g", "o", "r", "y">>)
        \o key(args.tag # <<>>, <<"t", "a", "g">>)

QValues ==
    {None, Some(<<>>), Some(<<" ">>), Some(<<"a">>), Some(<<" ", "a", "\t">>)}

PageValues ==
    {None, Some(<<"x">>)} \cup {Some(IntToStr(n)) : n \in (0 - MaxPage)..MaxPage}

SizeValues ==
    {None, Some(<<"x">>)}
    \cup {Some(IntToStr(n)) : n \in (0 - 1)..1 \cup {20, 100} \cup 101..(100 + MaxOver)}

SortValues ==
    {None, Some(s_relevance), Some(s_price_asc), Some(s_price_desc),
     Some(s_newest), Some(s_distance), Some(<<"z", "z">>)}

GeoValues == {None, Some(<<"1">>), Some(<<"x">>)}

InStockValues ==
    {None, Some(s_true), Some(<<"T", "r", "u", "e">>),
     Some(<<"f", "a", "l", "s", "e">>)}

MinPriceValues ==
    {None, Some(<<"2", "5">>), Some(<<"a", "b", "c">>), Some(<<"n", "a", "n">>)}

MaxPriceValues ==
    {None, Some(<<"5", "0">>), Some(<<"a", "b", "c">>), Some(<<"5", ".", "5">>)}

ExtraPairs ==
    {<<s_attr_ \o <<"c">>, <<"B">>>>, <<s_attr_ \o <<"c">>, <<"R">>>>,
     <<s_attr_, <<"B">>>>, <<(<<"a", "t", "t", "r", "c">>), <<"R">>>>,
     <<(<<"c">>), <<"B">>>>}

ExtraKeys == {pair[1] : pair \in ExtraPairs}

ExtraValues == UNION {[1..n -> ExtraPairs] : n \in 0..MaxExtra}

PagingRequests ==
    {[NoArgs EXCEPT !.q = q, !.page = page, !.size = size] :
        q \in {None, Some(<<"a">>)}, page \in PageValues, size \in SizeValues}

SortRequests ==
    {[NoArgs EXCEPT !.q = q, !.sort = sort, !.lat = lat, !.lon = lon] :
        q \in {None, Some(<<" ">>), Some(<<"a">>)}, sort \in SortValues,
        lat \in GeoValues, lon \in GeoValues}

FilterRequests ==
    {[NoArgs EXCEPT !.q = q, !.in_stock = in_stock, !.min_price = lo,
                    !.max_price = hi, !.sort = sort] :
        q \in {None, Some(<<"a">>)}, in_stock \in InStockValues,
        lo \in MinPriceValues, hi \in MaxPriceValues,
        sort \in {None, Some(s_price_asc)}}

TermRequests ==
    {[NoArgs EXCEPT !.category_id = cid, !.status = status,
                    !.category = cats, !.tag = tags] :
        cid \in {None, Some(<<"3">>), Some(<<"x">>)},
        status \in {None, Some(<<>>), Some(<<"o", "n">>)},
        cats \in {<<>>, <<(<<"c">>)>>, <<(<<"c">>), (<<"d">>)>>},
        tags \in {<<>>, <<(<<"t">>)>>}}

AttrRequests ==
    {[NoArgs EXCEPT !.q = q, !.in_stock = in_stock, !.extra = extra] :
        q \in {None}, in_stock \in {None, Some(s_true)},
        extra \in ExtraValues}

SearchRequests ==
    PagingRequests \cup SortRequests \cup FilterRequests \cup TermRequests
    \cup AttrRequests

TextRequests == {[NoArgs EXCEPT !.q = q] : q \in QValues}

\* ------------------------------------------------------------------------
\* search_api.py: GET /search
\* ------------------------------------------------------------------------
INFERENCE_ID == "product-embedding-model"

\* the request parameters as the handler reads them
api_params(args) ==
    [q |-> strip(get(args.q, Some(<<>>), "str")[1]),
     category_id |-> get(args.category_id, None, "int"),
     status |-> args.status,
     min_price |-> get(args.min_price, None, "float"),
     max_price |-> get(args.max_price, None, "float"),
     in_stock |-> args.in_stock,
     sort_by |-> get(args.sort, Some(s_relevance), "str")[1],
     page |-> get(args.page, Some(1), "int")[1],
     size |-> min(get(args.size, Some(20), "int")[1], 100)]

\* one nested predicate per attr_* key of request.args.items()
RECURSIVE api_attr_filters(_)
api_attr_filters(its) ==
    IF Len(its) = 0 THEN <<>>
    ELSE LET key == its[1][1]
             value == its[1][2]
         IN  (IF startswith(key, s_attr_)
              THEN <<[kind |-> "nested", path |-> "attributes",
                      name |-> SubSeq(key, 6, Len(key)), value |-> value]>>
              ELSE <<>>)
             \o api_attr_filters(Tail(its))

\* p: the parameters read; its: request.args.items()
api_filters(p, its) ==
        (IF p.category_id # None
         THEN <<[kind |-> "term", field |-> "category_id",
                 value |-> p.category_id[1]]>>
         ELSE <<>>)
        \o (IF p.status # None /\ Len(p.status[1]) > 0
            THEN <<[kind |-> "term", field |-> "status",
                    value |-> p.status[1]]>>
            ELSE <<>>)
        \o (IF p.min_price # None
            THEN <<[kind |-> "range", field |-> "price", op |-> "gte",
                    value |-> p.min_price[1]]>>
            ELSE <<>>)
        \o (IF p.max_price # None
            THEN <<[kind |-> "range", field |-> "price", op |-> "lte",
                    value |-> p.max_price[1]]>>
            ELSE <<>>)
        \o (IF p.in_stock = Some(s_true)
            THEN <<[kind |-> "range", field |-> "stock_quantity", op |-> "gt",
                    value |-> 0]>>
            ELSE <<>>)
        \o api_attr_filters(its)

\* sort_options.get(sort_by, sort_options["relevance"])
api_sort_options(sort_by) ==
    IF sort_by = s_price_asc THEN <<[field |-> "price", order |-> "asc"]>>
    ELSE IF sort_by = s_price_desc THEN <<[field |-> "price", order |-> "desc"]>>
    ELSE IF sort_by = s_newest THEN <<[field |-> "created_at", order |-> "desc"]>>
    ELSE <<[field |-> "_score", order |-> "desc"]>>

\* the sort key of search_body: None when the handler sets no sort
api_sort(p) ==
    IF Len(p.q) = 0 /\ p.sort_by = s_relevance
    THEN Some(<<[field |-> "created_at", order |-> "desc"]>>)
    ELSE IF p.sort_by # s_relevance
    THEN Some(api_sort_options(p.sort_by))
    ELSE None

\* search_body as handed to es.search.  should and must are empty when the
\* bool query has no such key; rank, sort and suggest are None when
\* search_body has no such key.
api_plan(p, its) ==
        [should |->
            IF Len(p.q) > 0
            THEN <<[kind |-> "multi_match", query |-> p.q,
                    fields |-> <<"name^3", "description">>,
                    type |-> "best_fields", fuzziness |-> "AUTO"],
                   [kind |-> "knn", field |-> "product_embedding",
                    model_id |-> INFERENCE_ID, model_text |-> p.q,
                    k |-> 20, num_candidates |-> 100]>>
            ELSE <<>>,
         must |-> IF Len(p.q) > 0 THEN <<>> ELSE <<[kind |-> "match_all"]>>,
         filter |-> api_filters(p, its),
         rank |->
            IF Len(p.q) > 0
            THEN Some([rrf |-> [window_size |-> 100, rank_constant |-> 60]])
            ELSE None,
         sort |-> api_sort(p),
         from |-> (p.page - 1) * p.size,
         size |-> p.size,
         highlight |-> <<"name", "description">>,
         aggs |-> <<"categories", "statuses", "price_stats", "price_ranges">>,
         suggest |-> None]

api_search_body(args) ==
    api_plan(api_params(args), items(ArgKeys(args) \o args.extra))

\* ------------------------------------------------------------------------
\* catalog_search.py: GET /search
\* ------------------------------------------------------------------------
catalog_params(args) ==
    [q |-> get(args.q, Some(<<>>), "str")[1],
     categories |-> args.category,
     tags |-> args.tag,
     min_price |-> get(args.min_price, None, "float"),
     max_price |-> get(args.max_price, None, "float"),
     in_stock |-> lower(get(args.in_stock, Some(s_true), "str")[1]) = s_true,
     lat |-> get(args.lat, None, "float"),
     lon |-> get(args.lon, None, "float"),
     distance |-> get(args.distance, Some(s_50km), "str")[1],
     sort_by |-> get(args.sort, Some(s_relevance), "str")[1],
     page |-> get(args.page, Some(1), "int")[1],
     size |-> min(get(args.size, Some(20), "int")[1], 100)]

catalog_must(p) ==
    IF Len(p.q) > 0
    THEN <<[kind |-> "multi_match", query |-> p.q,
            fields |-> <<"name^3", "description", "tags^2">>,
            type |-> "best_fields", fuzziness |-> "AUTO"]>>
    ELSE <<>>

catalog_filters(p) ==
        (IF p.in_stock
         THEN <<[kind |-> "range", field |-> "stock_level", op |-> "gt",
                 value |-> 0]>>
         ELSE <<>>)
        \o [i \in 1..Len(p.categories) |->
              [kind |-> "term", field |-> "category",
               value |-> p.categories[i]]]
        \o [i \in 1..Len(p.tags) |->
              [kind |-> "term", field |-> "tags", value |-> p.tags[i]]]
        \o (IF p.min_price # None
            THEN <<[kind |-> "range", field |-> "price", op |-> "gte",
                    value |-> p.min_price[1]]>>
            ELSE <<>>)
        \o (IF p.max_price # None
            THEN <<[kind |-> "range", field |-> "price", op |-> "lte",
                    value |-> p.max_price[1]]>>
            ELSE <<>>)
        \o (IF p.lat # None /\ p.lon # None
            THEN <<[kind |-> "geo_distance", distance |-> p.distance,
                    lat |-> p.lat[1], lon |-> p.lon[1]]>>
            ELSE <<>>)

\* sort_options.get(sort_by, sort_options["relevance"])
catalog_sort_options(sort_by) ==
    IF sort_by = s_price_asc THEN <<[field |-> "price", order |-> "asc"]>>
    ELSE IF sort_by = s_price_desc THEN <<[field |-> "price", order |-> "desc"]>>
    ELSE IF sort_by = s_newest THEN <<[field |-> "_score", order |-> "desc"]>>
    ELSE <<[field |-> "_score", order |-> "desc"],
           [field |-> "stock_level", order |-> "desc"]>>

catalog_sort(p) ==
    IF p.sort_by = s_distance /\ p.lat # None /\ p.lon # None
    THEN <<[field |-> "_geo_distance", order |-> "asc", unit |-> "km",
            lat |-> p.lat[1], lon |-> p.lon[1]]>>
    ELSE catalog_sort_options(p.sort_by)

\* body as handed to es.search; suggest is None for the empty dict
or_match_all(must) ==
    IF Len(must) > 0 THEN must ELSE <<[kind |-> "match_all"]>>

catalog_plan(p) ==
        [should |-> <<>>,
         must |-> or_match_all(catalog_must(p)),
         filter |-> catalog_filters(p),
         rank |-> None,
         sort |-> Some(catalog_sort(p)),
         from |-> (p.page - 1) * p.size,
         size |-> p.size,
         highlight |-> <<"name", "description">>,
         aggs |-> <<"categories", "tags", "price_ranges", "price_stats",
                    "stock_status">>,
         suggest |->
            IF Len(p.q) > 0
            THEN Some([spelling |->
                    [text |-> p.q, field |-> "name", size |-> 3,
                     gram_size |-> 3, suggest_mode |-> "popular"]])
            ELSE None]

\* the body without its "suggest" section
catalog_body_no_suggest(args) ==
    [catalog_plan(catalog_params(args)) EXCEPT !.suggest = None]

catalog_body(args) == catalog_plan(catalog_params(args))

\* ------------------------------------------------------------------------
\* /autocomplete and /suggest request bodies
\* ------------------------------------------------------------------------
api_autocomplete_body(q) ==
    [suggester |-> "product-suggest", kind |-> "completion", text |-> q,
     field |-> "name_suggest", size |-> 8, skip_duplicates |-> TRUE,
     fuzziness |-> "AUTO", source |-> <<"name", "sku", "price", "status">>]

api_suggest_body(q) ==
    [suggester |-> "spelling", kind |-> "phrase", text |-> q,
     field |-> "name", size |-> 3, gram_size |-> 3,
     suggest_mode |-> "popular"]

catalog_autocomplete_body(q) ==
    [suggester |-> "product-suggest", kind |-> "completion", text |-> q,
     field |-> "name_suggest", size |-> 8, skip_duplicates |-> TRUE,
     fuzziness |-> "AUTO",
     source |-> <<"name", "product_id", "price", "category">>]

\* ------------------------------------------------------------------------
\* Engine responses.  total is hits.total.value; suggest is None when the
\* response has no suggest section; a section names its suggester and holds
\* None when it has no entry of that name, else the list of contexts; a
\* context holds None when it has no options key.
\* ------------------------------------------------------------------------
SuggestOptions ==
    {<<>>, <<[text |-> <<"a">>, score |-> 1,
              source |-> [name |-> <<"a">>, product_id |-> <<"p">>]]>>}

SuggestContexts ==
    {[options |-> None]} \cup {[options |-> Some(o)] : o \in SuggestOptions}

SuggestSections ==
    {None, Some([entry |-> None]), Some([entry |-> Some(<<>>)])}
    \cup {Some([entry |-> Some(<<c>>)]) : c \in SuggestContexts}

TotalValues == 0..MaxTotal \cup {97}

Responses == [total : TotalValues, suggest : SuggestSections]

\* resp["suggest"][name][0]["options"]: the options, or the exception raised
suggest_options(resp) ==
    IF resp.suggest = None THEN [error |-> "KeyError", options |-> <<>>]
    ELSE IF resp.suggest[1].entry = None
    THEN [error |-> "KeyError", options |-> <<>>]
    ELSE IF Len(resp.suggest[1].entry[1]) = 0
    THEN [error |-> "IndexError", options |-> <<>>]
    ELSE IF resp.suggest[1].entry[1][1].options = None
    THEN [error |-> "KeyError", options |-> <<>>]
    ELSE [error |-> "", options |-> resp.suggest[1].entry[1][1].options[1]]

\* ------------------------------------------------------------------------
\* Responses of the handlers: status "ok" with the JSON document, or
\* status "error" with the exception that leaves the handler
\* ------------------------------------------------------------------------
Ok(json) == [status |-> "ok", error |-> "", json |-> json]

Raise(exception) == [status |-> "error", error |-> exception, json |-> <<>>]

api_result(p, r) ==
    IF p.size = 0 THEN Raise("ZeroDivisionError")
    ELSE Ok([total |-> r.total, page |-> p.page, size |-> p.size,
             pages |-> FloorDiv(r.total + p.size - 1, p.size)])

api_search_response(args, r) == api_result(api_params(args), r)

\* the suggestions loop of product_search
\* ctx.get("options", [])
get_options(ctx) == IF ctx.options = None THEN <<>> ELSE ctx.options[1]

option_texts(options) == [i \in 1..Len(options) |-> options[i].text]

catalog_suggestions(p, r) ==
    IF Len(p.q) > 0 /\ r.suggest # None /\ r.suggest[1].entry # None
    THEN IF Len(r.suggest[1].entry[1]) = 0
         THEN [error |-> "IndexError", texts |-> <<>>]
         ELSE [error |-> "",
               texts |-> option_texts(get_options(r.suggest[1].entry[1][1]))]
    ELSE [error |-> "", texts |-> <<>>]

catalog_result(p, r, sg) ==
    IF sg.error # "" THEN Raise(sg.error)
    ELSE IF p.size = 0 THEN Raise("ZeroDivisionError")
    ELSE Ok([total |-> r.total, suggestions |-> sg.texts,
             page |-> p.page,
             pages |-> FloorDiv(r.total + p.size - 1, p.size)])

catalog_respond(p, r) == catalog_result(p, r, catalog_suggestions(p, r))

catalog_search_response(args, r) == catalog_respond(catalog_params(args), r)

api_autocomplete_response(resp) ==
    LET so == suggest_options(resp)
    IN  IF so.error # "" THEN Raise(so.error)
        ELSE Ok([suggestions |->
                    [i \in 1..Len(so.options) |->
                        [text |-> so.options[i].text,
                         score |-> so.options[i].score,
                         product |-> so.options[i].source]]])

api_suggest_response(resp) ==
    LET so == suggest_options(resp)
    IN  IF so.error # "" THEN Raise(so.error)
        ELSE Ok([suggestions |->
                    [i \in 1..Len(so.options) |->
                        [text |-> so.options[i].text,
                         score |-> so.options[i].score]]])

catalog_autocomplete_response(resp) ==
    LET so == suggest_options(resp)
    IN  IF so.error # "" THEN Raise(so.error)
        ELSE Ok([suggestions |->
                    [i \in 1..Len(so.options) |->
                        [text |-> so.options[i].text,
                         product_id |-> so.options[i].source.product_id]]])

\* ------------------------------------------------------------------------
\* The services as a state machine.  A worker handles one request at a
\* time: it is idle, waiting for the engine inside es.search, or done with
\* the response in hand.
\* ------------------------------------------------------------------------
VARIABLES
    pc,        \* worker -> "idle" | "waiting" | "done"
    handler,   \* worker -> the view function handling the request
    request,   \* worker -> request.args
    body,      \* worker -> optional body handed to es.search
    calls,     \* worker -> number of es.search calls made for the request
    resp,      \* worker -> optional response returned by es.search
    result,    \* worker -> optional response of the handler
    exists,    \* the index INDEX exists in the cluster
    creates,   \* number of es.indices.create requests made
    create_index_calls,  \* number of create_index calls made
    docs,      \* the documents of the index: records [id, source]
    generated, \* number of document ids the engine has generated
    indexed,   \* the list index_products was last called with, if any
    ingest_pc, \* where ingest() is: "idle" | "bulk" | "cursor.close" |
               \* "conn.close" | "done"
    rows,      \* number of rows the cursor yields
    submitted, \* the engine's answer per document submitted so far
    cursor,    \* "none" | "open" | "closed"
    conn,      \* "none" | "open" | "closed"
    raised     \* the exception bulk left with: "none" | its class

search_vars == <<pc, handler, request, body, calls, resp, result>>

index_vars == <<exists, creates, create_index_calls, docs, generated, indexed>>

ingest_vars == <<ingest_pc, rows, submitted, cursor, conn, raised>>

vars == <<search_vars, index_vars, ingest_vars>>

\* Requests are handled independently, one per worker; Spec runs the
\* requests of worker 1 one after the other.
AllWorkers == {1, 2}

Init ==
    /\ pc = [w \in AllWorkers |-> "idle"]
    /\ handler = [w \in AllWorkers |-> "none"]
    /\ request = [w \in AllWorkers |-> NoArgs]
    /\ body = [w \in AllWorkers |-> None]
    /\ calls = [w \in AllWorkers |-> 0]
    /\ resp = [w \in AllWorkers |-> None]
    /\ result = [w \in AllWorkers |-> None]
    /\ exists = FALSE
    /\ creates = 0
    /\ create_index_calls = 0
    /\ docs = {}
    /\ generated = 0
    /\ indexed = None
    /\ ingest_pc = "idle"
    /\ rows = 0
    /\ submitted = <<>>
    /\ cursor = "none"
    /\ conn = "none"
    /\ raised = "none"

\* request.args.get("q", "").strip()
stripped_q(args) == strip(get(args.q, Some(<<>>), "str")[1])

\* a search that keeps its plan in one slot shared by the requests in flight
api_search_call_shared(w, args) ==
    /\ pc[w] = "idle"
    /\ pc' = [pc EXCEPT ![w] = "waiting"]
    /\ handler' = [handler EXCEPT ![w] = "api.search"]
    /\ request' = [request EXCEPT ![w] = args]
    /\ body' = [v \in AllWorkers |-> Some(api_search_body(args))]
    /\ calls' = [calls EXCEPT ![w] = calls[w] + 1]
    /\ UNCHANGED <<resp, result>>
    /\ UNCHANGED <<index_vars, ingest_vars>>

\* search of search_api.py, up to its es.search call
api_search_call(w, args) ==
    /\ pc[w] = "idle"
    /\ pc' = [pc EXCEPT ![w] = "waiting"]
    /\ handler' = [handler EXCEPT ![w] = "api.search"]
    /\ request' = [request EXCEPT ![w] = args]
    /\ body' = [body EXCEPT ![w] = Some(api_search_body(args))]
    /\ calls' = [calls EXCEPT ![w] = calls[w] + 1]
    /\ UNCHANGED <<resp, result>>
    /\ UNCHANGED <<index_vars, ingest_vars>>

\* es.search returns r and search runs to its end
api_search_return(w, r) ==
    /\ pc[w] = "waiting"
    /\ handler[w] = "api.search"
    /\ pc' = [pc EXCEPT ![w] = "done"]
    /\ resp' = [resp EXCEPT ![w] = Some(r)]
    /\ result' = [result EXCEPT ![w] = Some(api_search_response(request[w], r))]
    /\ UNCHANGED <<handler, request, body, calls>>
    /\ UNCHANGED <<index_vars, ingest_vars>>

\* autocomplete of search_api.py returns without calling es.search
api_autocomplete_empty(w, args) ==
    /\ pc[w] = "idle"
    /\ Len(stripped_q(args)) = 0
    /\ pc' = [pc EXCEPT ![w] = "done"]
    /\ handler' = [handler EXCEPT ![w] = "api.autocomplete"]
    /\ request' = [request EXCEPT ![w] = args]
    /\ result' = [result EXCEPT ![w] = Some(Ok([suggestions |-> <<>>]))]
    /\ UNCHANGED <<body, calls, resp>>
    /\ UNCHANGED <<index_vars, ingest_vars>>

api_autocomplete_call(w, args) ==
    /\ pc[w] = "idle"
    /\ Len(stripped_q(args)) > 0
    /\ pc' = [pc EXCEPT ![w] = "waiting"]
    /\ handler' = [handler EXCEPT ![w] = "api.autocomplete"]
    /\ request' = [request EXCEPT ![w] = args]
    /\ body' = [body EXCEPT ![w] = Some(api_autocomplete_body(stripped_q(args)))]
    /\ calls' = [calls EXCEPT ![w] = calls[w] + 1]
    /\ UNCHANGED <<resp, result>>
    /\ UNCHANGED <<index_vars, ingest_vars>>

api_autocomplete_return(w, r) ==
    /\ pc[w] = "waiting"
    /\ handler[w] = "api.autocomplete"
    /\ pc' = [pc EXCEPT ![w] = "done"]
    /\ resp' = [resp EXCEPT ![w] = Some(r)]
    /\ result' = [result EXCEPT ![w] = Some(api_autocomplete_response(r))]
    /\ UNCHANGED <<handler, request, body, calls>>
    /\ UNCHANGED <<index_vars, ingest_vars>>

\* suggest returns without calling es.search
api_suggest_empty(w, args) ==
    /\ pc[w] = "idle"
    /\ Len(stripped_q(args)) = 0
    /\ pc' = [pc EXCEPT ![w] = "done"]
    /\ handler' = [handler EXCEPT ![w] = "api.suggest"]
    /\ request' = [request EXCEPT ![w] = args]
    /\ result' = [result EXCEPT ![w] = Some(Ok([suggestions |-> <<>>]))]
    /\ UNCHANGED <<body, calls, resp>>
    /\ UNCHANGED <<index_vars, ingest_vars>>

api_suggest_call(w, args) ==
    /\ pc[w] = "idle"
    /\ Len(stripped_q(args)) > 0
    /\ pc' = [pc EXCEPT ![w] = "waiting"]
    /\ handler' = [handler EXCEPT ![w] = "api.suggest"]
    /\ request' = [request EXCEPT ![w] = args]
    /\ body' = [body EXCEPT ![w] = Some(api_suggest_body(stripped_q(args)))]
    /\ calls' = [calls EXCEPT ![w] = calls[w] + 1]
    /\ UNCHANGED <<resp, result>>
    /\ UNCHANGED <<index_vars, ingest_vars>>

api_suggest_return(w, r) ==
    /\ pc[w] = "waiting"
    /\ handler[w] = "api.suggest"
    /\ pc' = [pc EXCEPT ![w] = "done"]
    /\ resp' = [resp EXCEPT ![w] = Some(r)]
    /\ result' = [result EXCEPT ![w] = Some(api_suggest_response(r))]
    /\ UNCHANGED <<handler, request, body, calls>>
    /\ UNCHANGED <<index_vars, ingest_vars>>

\* product_search of catalog_search.py, up to its es.search call
catalog_product_search_call(w, args) ==
    /\ pc[w] = "idle"
    /\ pc' = [pc EXCEPT ![w] = "waiting"]
    /\ handler' = [handler EXCEPT ![w] = "catalog.product_search"]
    /\ request' = [request EXCEPT ![w] = args]
    /\ body' = [body EXCEPT ![w] = Some(catalog_body(args))]
    /\ calls' = [calls EXCEPT ![w] = calls[w] + 1]
    /\ UNCHANGED <<resp, result>>
    /\ UNCHANGED <<index_vars, ingest_vars>>

catalog_product_search_return(w, r) ==
    /\ pc[w] = "waiting"
    /\ handler[w] = "catalog.product_search"
    /\ pc' = [pc EXCEPT ![w] = "done"]
    /\ resp' = [resp EXCEPT ![w] = Some(r)]
    /\ result' = [result EXCEPT ![w] = Some(catalog_search_response(request[w], r))]
    /\ UNCHANGED <<handler, request, body, calls>>
    /\ UNCHANGED <<index_vars, ingest_vars>>

\* autocomplete of catalog_search.py: no test of q before es.search
catalog_autocomplete_call(w, args) ==
    /\ pc[w] = "idle"
    /\ pc' = [pc EXCEPT ![w] = "waiting"]
    /\ handler' = [handler EXCEPT ![w] = "catalog.autocomplete"]
    /\ request' = [request EXCEPT ![w] = args]
    /\ body' = [body EXCEPT ![w] = Some(catalog_autocomplete_body(get(args.q, Some(<<>>), "str")[1]))]
    /\ calls' = [calls EXCEPT ![w] = calls[w] + 1]
    /\ UNCHANGED <<resp, result>>
    /\ UNCHANGED <<index_vars, ingest_vars>>

catalog_autocomplete_return(w, r) ==
    /\ pc[w] = "waiting"
    /\ handler[w] = "catalog.autocomplete"
    /\ pc' = [pc EXCEPT ![w] = "done"]
    /\ resp' = [resp EXCEPT ![w] = Some(r)]
    /\ result' = [result EXCEPT ![w] = Some(catalog_autocomplete_response(r))]
    /\ UNCHANGED <<handler, request, body, calls>>
    /\ UNCHANGED <<index_vars, ingest_vars>>

\* a handler that catches the error and calls es.search again
es_search_retries(w) ==
    /\ pc[w] = "waiting"
    /\ calls' = [calls EXCEPT ![w] = calls[w] + 1]
    /\ UNCHANGED <<pc, handler, request, body, resp, result>>
    /\ UNCHANGED <<index_vars, ingest_vars>>

\* es.search raises (engine unavailable, plan rejected); no handler
\* catches it
es_search_raises(w) ==
    /\ pc[w] = "waiting"
    /\ pc' = [pc EXCEPT ![w] = "done"]
    /\ result' = [result EXCEPT ![w] = Some(Raise("TransportError"))]
    /\ UNCHANGED <<handler, request, body, calls, resp>>
    /\ UNCHANGED <<index_vars, ingest_vars>>

\* the response is sent; everything built for the request is discarded
respond(w) ==
    /\ pc[w] = "done"
    /\ pc' = [pc EXCEPT ![w] = "idle"]
    /\ handler' = [handler EXCEPT ![w] = "none"]
    /\ request' = [request EXCEPT ![w] = NoArgs]
    /\ body' = [body EXCEPT ![w] = None]
    /\ calls' = [calls EXCEPT ![w] = 0]
    /\ resp' = [resp EXCEPT ![w] = None]
    /\ result' = [result EXCEPT ![w] = None]
    /\ UNCHANGED <<index_vars, ingest_vars>>

Next ==
    \/ \E args \in SearchRequests : api_search_call(1, args)
    \/ \E r \in Responses : api_search_return(1, r)
    \/ \E args \in TextRequests : api_autocomplete_empty(1, args)
    \/ \E args \in TextRequests : api_autocomplete_call(1, args)
    \/ \E r \in Responses : api_autocomplete_return(1, r)
    \/ \E args \in TextRequests : api_suggest_empty(1, args)
    \/ \E args \in TextRequests : api_suggest_call(1, args)
    \/ \E r \in Responses : api_suggest_return(1, r)
    \/ \E args \in SearchRequests : catalog_product_search_call(1, args)
    \/ \E r \in Responses : catalog_product_search_return(1, r)
    \/ \E args \in TextRequests : catalog_autocomplete_call(1, args)
    \/ \E r \in Responses : catalog_autocomplete_return(1, r)
    \/ es_search_raises(1)
    \/ respond(1)

Spec == Init /\ [][Next]_vars

\* Concurrent requests: the WSGI server runs the view functions of several
\* requests at once, one per worker, interleaved at their es.search calls.
ConcSearchRequests ==
    {NoArgs,
     [NoArgs EXCEPT !.q = Some(<<"a">>)],
     [NoArgs EXCEPT !.q = Some(<<"a">>), !.size = Some(<<"0">>)]}

ConcTextRequests == {NoArgs, [NoArgs EXCEPT !.q = Some(<<"a">>)]}

ConcResponses ==
    [total : {0, 97},
     suggest : {None} \cup {Some([entry |-> Some(<<[options |-> Some(o)]>>)]) :
                                o \in SuggestOptions}]

NextConc ==
    \E w \in AllWorkers :
        \/ \E args \in ConcSearchRequests : api_search_call(w, args)
        \/ \E r \in ConcResponses : api_search_return(w, r)
        \/ \E args \in ConcTextRequests : api_autocomplete_empty(w, args)
        \/ \E args \in ConcTextRequests : api_autocomplete_call(w, args)
        \/ \E r \in ConcResponses : api_autocomplete_return(w, r)
        \/ \E args \in ConcTextRequests : api_suggest_empty(w, args)
        \/ \E args \in ConcTextRequests : api_suggest_call(w, args)
        \/ \E r \in ConcResponses : api_suggest_return(w, r)
        \/ \E args \in ConcSearchRequests :
              catalog_product_search_call(w, args)
        \/ \E r \in ConcResponses : catalog_product_search_return(w, r)
        \/ \E args \in ConcTextRequests : catalog_autocomplete_call(w, args)
        \/ \E r \in ConcResponses : catalog_autocomplete_return(w, r)
        \/ es_search_raises(w)
        \/ respond(w)

SpecConc == Init /\ [][NextConc]_vars

\* ------------------------------------------------------------------------
\* catalog_search.py: create_index and index_products
\* ------------------------------------------------------------------------
MaxCreateCalls == 2

MaxProducts == 2

MaxGenerated == 3

INDEX == "products"

\* a create_index that does not ask whether the index exists
create_index_unguarded ==
    /\ create_index_calls < MaxCreateCalls
    /\ create_index_calls' = create_index_calls + 1
    /\ exists' = TRUE
    /\ creates' = creates + 1
    /\ UNCHANGED <<docs, generated, indexed>>
    /\ UNCHANGED <<search_vars, ingest_vars>>

\* create_index(): es.indices.create only if es.indices.exists says no
create_index ==
    /\ create_index_calls < MaxCreateCalls
    /\ create_index_calls' = create_index_calls + 1
    /\ exists' = TRUE
    /\ creates' = IF ~exists THEN creates + 1 ELSE creates
    /\ UNCHANGED <<docs, generated, indexed>>
    /\ UNCHANGED <<search_vars, ingest_vars>>

\* product dicts: product_id may be missing
Products ==
    {[product_id |-> Some("p1"), name |-> "a"],
     [product_id |-> Some("p1"), name |-> "b"],
     [product_id |-> Some("p2"), name |-> "a"],
     [product_id |-> None, name |-> "a"]}

ProductLists ==
    UNION {[1..n -> Products] : n \in 0..MaxProducts}

\* doc = dict(product) with name_suggest added
product_doc(product) ==
    [product_id |-> product.product_id, name |-> product.name,
     name_suggest |-> [input |-> <<product.name>>, weight |-> 1]]

\* one action per product; "_id" is doc.get("product_id"), None if missing
product_actions(products) ==
    [i \in 1..Len(products) |->
        [_index |-> INDEX, _id |-> products[i].product_id,
         _source |-> product_doc(products[i])]]

\* the engine's index operation: a given _id replaces the document of
\* that id; with a null _id the engine generates a fresh id
es_index(store, action) ==
    IF action._id = None
    THEN [docs |-> store.docs \cup
                     {[id |-> [given |-> "", auto |-> store.generated + 1],
                       source |-> action._source]},
          generated |-> store.generated + 1]
    ELSE [docs |-> {d \in store.docs : d.id.given # action._id[1]} \cup
                     {[id |-> [given |-> action._id[1], auto |-> 0],
                       source |-> action._source]},
          generated |-> store.generated]

\* helpers.bulk(es, actions, raise_on_error=False, raise_on_exception=False)
RECURSIVE bulk(_, _)
bulk(store, actions) ==
    IF Len(actions) = 0 THEN store
    ELSE bulk(es_index(store, Head(actions)), Tail(actions))

WithoutId(products) ==
    Cardinality({i \in 1..Len(products) : products[i].product_id = None})

\* index_products(products); the engine creates a missing index on the
\* first document written to it
index_products(products) ==
    /\ generated + WithoutId(products) <= MaxGenerated
    /\ docs' = bulk([docs |-> docs, generated |-> generated],
                    product_actions(products)).docs
    /\ generated' = generated + WithoutId(products)
    /\ exists' = (exists \/ Len(products) > 0)
    /\ indexed' = Some(products)
    /\ UNCHANGED <<creates, create_index_calls>>
    /\ UNCHANGED <<search_vars, ingest_vars>>

NextIndex ==
    \/ create_index
    \/ \E products \in ProductLists : index_products(products)

SpecIndex == Init /\ [][NextIndex]_vars

\* ------------------------------------------------------------------------
\* ingest_from_postgres.py: ingest
\* ------------------------------------------------------------------------
MaxRows == 3

\* chunk_size=BATCH_SIZE, scaled down from the 500 of the source
ChunkSize == 2

Min(a, b) == IF a < b THEN a ELSE b

\* the engine's answer to one bulk request: "ok" or "error" per document
ChunkOutcomes(n) == [1..n -> {"ok", "error"}]

\* get_es_client(), get_pg_connection(), conn.cursor(...), cursor.execute
ingest_start(n) ==
    /\ ingest_pc = "idle"
    /\ ingest_pc' = "bulk"
    /\ rows' = n
    /\ submitted' = <<>>
    /\ cursor' = "open"
    /\ conn' = "open"
    /\ raised' = "none"
    /\ UNCHANGED <<search_vars, index_vars>>

\* a bulk with raise_on_error=True: a chunk with a failed document raises
\* BulkIndexError, which ingest catches
bulk_chunk_raise_on_error(outcomes) ==
    /\ ingest_pc = "bulk"
    /\ Len(submitted) < rows
    /\ Len(outcomes) = Min(ChunkSize, rows - Len(submitted))
    /\ submitted' = submitted \o outcomes
    /\ ingest_pc' = IF \E i \in 1..Len(outcomes) : outcomes[i] = "error"
                    THEN "cursor.close" ELSE "bulk"
    /\ raised' = IF \E i \in 1..Len(outcomes) : outcomes[i] = "error"
                 THEN "BulkIndexError" ELSE "none"
    /\ UNCHANGED <<rows, cursor, conn>>
    /\ UNCHANGED <<search_vars, index_vars>>

\* bulk(..., raise_on_error=False, raise_on_exception=False) reads the
\* next chunk from generate_actions(cursor) and submits it; failed
\* documents are collected and the loop goes on
bulk_chunk(outcomes) ==
    /\ ingest_pc = "bulk"
    /\ Len(submitted) < rows
    /\ Len(outcomes) = Min(ChunkSize, rows - Len(submitted))
    /\ submitted' = submitted \o outcomes
    /\ UNCHANGED <<ingest_pc, rows, cursor, conn, raised>>
    /\ UNCHANGED <<search_vars, index_vars>>

\* bulk returns (success, errors); ingest prints them and enters finally
bulk_returns ==
    /\ ingest_pc = "bulk"
    /\ Len(submitted) = rows
    /\ ingest_pc' = "cursor.close"
    /\ UNCHANGED <<rows, submitted, cursor, conn, raised>>
    /\ UNCHANGED <<search_vars, index_vars>>

\* bulk raises: reading the cursor or building an action in
\* generate_actions failed; the exception is no BulkIndexError, so it
\* passes the except clause and ingest enters finally
bulk_raises ==
    /\ ingest_pc = "bulk"
    /\ ingest_pc' = "cursor.close"
    /\ raised' = "Exception"
    /\ UNCHANGED <<rows, submitted, cursor, conn>>
    /\ UNCHANGED <<search_vars, index_vars>>

\* finally: cursor.close()
cursor_close ==
    /\ ingest_pc = "cursor.close"
    /\ cursor' = "closed"
    /\ ingest_pc' = "conn.close"
    /\ UNCHANGED <<rows, submitted, conn, raised>>
    /\ UNCHANGED <<search_vars, index_vars>>

\* finally: conn.close(), print("Done."); ingest returns or re-raises
conn_close ==
    /\ ingest_pc = "conn.close"
    /\ conn' = "closed"
    /\ ingest_pc' = "done"
    /\ UNCHANGED <<rows, submitted, cursor, raised>>
    /\ UNCHANGED <<search_vars, index_vars>>

NextIngest ==
    \/ \E n \in 0..MaxRows : ingest_start(n)
    \/ \E outcomes \in UNION {ChunkOutcomes(n) : n \in 1..ChunkSize} :
          bulk_chunk(outcomes)
    \/ bulk_returns
    \/ bulk_raises
    \/ cursor_close
    \/ conn_close

SpecIngest == Init /\ [][NextIngest]_vars

\* ------------------------------------------------------------------------
\* Vocabulary of the properties
\* ------------------------------------------------------------------------
IsSearch(w) == handler[w] \in {"api.search", "catalog.product_search"}

\* the worker has built its plan (it is inside or past es.search)
Planned(w) == IsSearch(w) /\ body[w] # None

\* the worker has normalized an engine response
Normalized(w) == pc[w] = "done" /\ resp[w] # None

Plan(w) == body[w][1]

\* the number a raw parameter stands for; None when missing or not a number
Requested(raw) == get(raw, None, "int")

\* text that is empty once trimmed
IsBlank(text) == \A i \in 1..Len(text) : text[i] \in Whitespace

QueryText(w) == IF request[w].q = None THEN <<>> ELSE request[w].q[1]

HasClause(clauses, kind) == \E i \in 1..Len(clauses) : clauses[i].kind = kind

Newest == <<[field |-> "created_at", order |-> "desc"]>>

\* ------------------------------------------------------------------------
\* C1 - a page that is absent, zero or negative is served as page 1 at
\* offset 0; the offset of every plan is (effective page - 1) * size, and
\* with a positive size it is never negative.
\* ------------------------------------------------------------------------
EffectivePage(w) ==
    IF Requested(request[w].page) = None THEN 1
    ELSE IF Requested(request[w].page)[1] <= 0 THEN 1
    ELSE Requested(request[w].page)[1]

C1_PageDefaultsToOne ==
    \A w \in AllWorkers :
        Planned(w) =>
            /\ Plan(w).size >= 1 => Plan(w).from >= 0
            /\ Plan(w).from = (EffectivePage(w) - 1) * Plan(w).size
            /\ (Requested(request[w].page) = None
                    \/ Requested(request[w].page)[1] <= 0)
                => /\ Plan(w).from = 0
                   /\ (Normalized(w) /\ result[w][1].status = "ok")
                        => result[w][1].json.page = 1

\* ------------------------------------------------------------------------
\* C2 - the page size of every plan lies in 1..100 (20 when absent) and
\* the page count never divides by zero.
\* ------------------------------------------------------------------------
C2_SizeWithinRange ==
    \A w \in AllWorkers :
        Planned(w) =>
            /\ Plan(w).size \in 1..100
            /\ request[w].size = None => Plan(w).size = 20
            /\ Normalized(w) => result[w][1].error # "ZeroDivisionError"

\* ------------------------------------------------------------------------
\* C3 - a requested size above 100 is served as exactly 100: in the plan's
\* size, in the offset and in the page count.
\* ------------------------------------------------------------------------
C3_SizeCappedAt100 ==
    \A w \in AllWorkers :
        (/\ Planned(w)
         /\ Requested(request[w].size) # None
         /\ Requested(request[w].size)[1] > 100)
        => /\ Plan(w).size = 100
           /\ Plan(w).from
                = (get(request[w].page, Some(1), "int")[1] - 1) * 100
           /\ (Normalized(w) /\ result[w][1].status = "ok") =>
                /\ result[w][1].json.pages * 100 >= resp[w][1].total
                /\ (result[w][1].json.pages - 1) * 100 < resp[w][1].total
                /\ handler[w] = "api.search" => result[w][1].json.size = 100

C3_Witness ==
    /\ Planned(1)
    /\ Normalized(1)
    /\ request[1].size = Some(<<"1", "0", "2">>)
    /\ request[1].page = Some(<<"2">>)
    /\ resp[1][1].total = 97
    /\ result[1][1].status = "ok"

\* ------------------------------------------------------------------------
\* C4 - an autocomplete or spelling request whose q is empty, blank or
\* missing answers {suggestions: []} without any call to the engine.
\* ------------------------------------------------------------------------
C4_EmptyPrefixShortCircuits ==
    \A w \in AllWorkers :
        (/\ handler[w] \in {"api.autocomplete", "api.suggest",
                             "catalog.autocomplete"}
         /\ IsBlank(QueryText(w)))
        => /\ calls[w] = 0
           /\ pc[w] = "done" => result[w][1] = Ok([suggestions |-> <<>>])

\* ------------------------------------------------------------------------
\* C5 - in the hybrid plan of search_api the keyword clause, the knn clause
\* and the rrf rank section are present exactly when the trimmed query
\* text is non-empty; a blank query gives a match-all must-clause instead.
\* ------------------------------------------------------------------------
C5_HybridClausesIffQuery ==
    \A w \in AllWorkers :
        (handler[w] = "api.search" /\ body[w] # None) =>
            LET blank == IsBlank(QueryText(w))
            IN  /\ HasClause(Plan(w).should, "multi_match") <=> ~blank
                /\ HasClause(Plan(w).should, "knn") <=> ~blank
                /\ (Plan(w).rank # None) <=> ~blank
                /\ blank => /\ Len(Plan(w).must) = 1
                            /\ Plan(w).must[1].kind = "match_all"
                            /\ Plan(w).should = <<>>
                /\ ~blank => /\ Plan(w).should # <<>>
                             /\ Plan(w).must = <<>>

C5_Witness ==
    /\ handler[1] = "api.search"
    /\ body[1] # None
    /\ request[1].q = Some(<<" ">>)
    /\ HasClause(Plan(1).must, "match_all")

\* ------------------------------------------------------------------------
\* C6 - with empty query text both search handlers sort newest-first
\* (created_at descending) when sort is absent or "relevance", use an
\* explicit price_asc / price_desc / newest sort as given, keep a match-all
\* must-clause and carry the price range filters that were supplied.
\* ------------------------------------------------------------------------
HasPriceRange(w, op) ==
    \E i \in 1..Len(Plan(w).filter) :
        /\ Plan(w).filter[i].kind = "range"
        /\ Plan(w).filter[i].field = "price"
        /\ Plan(w).filter[i].op = op

C6_BrowseSortsNewest ==
    \A w \in AllWorkers :
        (Planned(w) /\ QueryText(w) = <<>>) =>
            /\ request[w].sort \in {None, Some(s_relevance)}
                => Plan(w).sort = Some(Newest)
            /\ request[w].sort = Some(s_newest) => Plan(w).sort = Some(Newest)
            /\ request[w].sort = Some(s_price_asc)
                => Plan(w).sort = Some(<<[field |-> "price", order |-> "asc"]>>)
            /\ request[w].sort = Some(s_price_desc)
                => Plan(w).sort = Some(<<[field |-> "price", order |-> "desc"]>>)
            /\ HasClause(Plan(w).must, "match_all")
            /\ request[w].min_price = Some(<<"2", "5">>) => HasPriceRange(w, "gte")
            /\ request[w].max_price = Some(<<"5", "0">>) => HasPriceRange(w, "lte")

\* ------------------------------------------------------------------------
\* C7 - an unrecognized sort value, and sort=distance without both lat and
\* lon, give the same sort specification as the same request without a
\* sort parameter, whatever the query text.
\* ------------------------------------------------------------------------
BodyFor(name, args) ==
    IF name = "api.search" THEN api_search_body(args) ELSE catalog_body(args)

KnownSorts ==
    {s_relevance, s_price_asc, s_price_desc, s_newest, s_distance}

C7_UnknownSortLikeOmitted ==
    \A w \in AllWorkers :
        (/\ Planned(w)
         /\ request[w].sort # None
         /\ \/ request[w].sort[1] \notin KnownSorts
            \/ /\ request[w].sort[1] = s_distance
               /\ \/ get(request[w].lat, None, "float") = None
                  \/ get(request[w].lon, None, "float") = None)
        => Plan(w).sort
            = BodyFor(handler[w], [request[w] EXCEPT !.sort = None]).sort

\* ------------------------------------------------------------------------
\* C8 - as claimed: every search plan carries the stock filter (stock > 0)
\* unless in_stock is given with a value other than "true"; a request
\* without in_stock gets the filter in both handlers.
\* ------------------------------------------------------------------------
HasStockFilter(w) ==
    \E i \in 1..Len(Plan(w).filter) :
        /\ Plan(w).filter[i].kind = "range"
        /\ Plan(w).filter[i].field \in {"stock_quantity", "stock_level"}
        /\ Plan(w).filter[i].op = "gt"
        /\ Plan(w).filter[i].value = 0

C8_StockFilterByDefault ==
    \A w \in AllWorkers :
        (Planned(w) /\ request[w].in_stock \in {None, Some(s_true)})
        => HasStockFilter(w)

\* C8 as amended: product_search carries the stock filter exactly when
\* in_stock is absent or spells "true" in any letter case; search_api
\* carries it exactly when in_stock is the string "true", so a request
\* without in_stock gets the filter in product_search only.
SameLetters(a, b) ==
    /\ Len(a) = Len(b)
    /\ \A i \in 1..Len(a) :
        \/ a[i] = b[i]
        \/ \E k \in 1..26 : {a[i], b[i]} = {UpperCase[k], LowerCase[k]}

C8_StockFilterPerHandler ==
    \A w \in AllWorkers :
        Planned(w) =>
            /\ handler[w] = "catalog.product_search" =>
                (HasStockFilter(w) <=>
                    \/ request[w].in_stock = None
                    \/ SameLetters(request[w].in_stock[1], s_true))
            /\ handler[w] = "api.search" =>
                (HasStockFilter(w) <=> request[w].in_stock = Some(s_true))

C8_Witness ==
    /\ handler[1] = "catalog.product_search"
    /\ body[1] # None
    /\ request[1].in_stock = Some(<<"T", "r", "u", "e">>)
    /\ HasStockFilter(1)

\* ------------------------------------------------------------------------
\* C9 - normalizing the spelling suggestions never fails: a response with
\* no suggest section, no spelling entry, no context or a context without
\* options gives an empty suggestions list in product_search and /suggest.
\* ------------------------------------------------------------------------
LacksOptions(r) ==
    \/ r.suggest = None
    \/ r.suggest[1].entry = None
    \/ Len(r.suggest[1].entry[1]) = 0
    \/ r.suggest[1].entry[1][1].options = None

C9_SuggestionsNeverFail ==
    \A w \in AllWorkers :
        (/\ handler[w] \in {"catalog.product_search", "api.suggest"}
         /\ Normalized(w)
         /\ LacksOptions(resp[w][1]))
        => /\ result[w][1].error \notin {"KeyError", "IndexError"}
           /\ result[w][1].status = "ok"
                => result[w][1].json.suggestions = <<>>

\* ------------------------------------------------------------------------
\* C10 - search_api turns each distinct attr_<name> key into exactly one
\* nested predicate on attributes with name = <name> and value = the
\* parameter's (first) value; other keys give no nested predicate.
\* ------------------------------------------------------------------------
IsAttrKey(key) ==
    /\ Len(key) >= 5
    /\ \A i \in 1..5 : key[i] = s_attr_[i]

AttrKeys(w) ==
    {request[w].extra[i][1] : i \in 1..Len(request[w].extra)}
        \cap {k \in ExtraKeys : IsAttrKey(k)}

FirstValue(w, key) ==
    LET at == {i \in 1..Len(request[w].extra) : request[w].extra[i][1] = key}
    IN  request[w].extra[CHOOSE i \in at : \A j \in at : i <= j][2]

NestedAt(w) ==
    {i \in 1..Len(Plan(w).filter) : Plan(w).filter[i].kind = "nested"}

C10_OneNestedPerAttr ==
    \A w \in AllWorkers :
        (handler[w] = "api.search" /\ body[w] # None) =>
            /\ Cardinality(NestedAt(w)) = Cardinality(AttrKeys(w))
            /\ \A key \in AttrKeys(w) :
                Cardinality({i \in NestedAt(w) :
                    /\ Plan(w).filter[i].path = "attributes"
                    /\ s_attr_ \o Plan(w).filter[i].name = key
                    /\ Plan(w).filter[i].value = FirstValue(w, key)}) = 1

C10_Witness ==
    /\ handler[1] = "api.search"
    /\ body[1] # None
    /\ request[1].extra
        = <<(<<s_attr_ \o <<"c">>, <<"B">>>>), (<<s_attr_ \o <<"c">>, <<"R">>>>)>>
    /\ Cardinality(NestedAt(1)) = 1

\* ------------------------------------------------------------------------
\* C11 - the page count of a search response is ceil(total / size) for
\* every total >= 0 and every page size the handler works with, and it is
\* 0 when total is 0.
\* ------------------------------------------------------------------------
IsCeiling(c, n, d) ==
    IF d > 0 THEN c * d >= n /\ (c - 1) * d < n
    ELSE IF d < 0 THEN c * d <= n /\ (c - 1) * d > n
    ELSE FALSE

C11_PagesIsCeiling ==
    \A w \in AllWorkers :
        (/\ IsSearch(w)
         /\ Normalized(w)
         /\ result[w][1].error \notin {"KeyError", "IndexError"})
        => /\ result[w][1].status = "ok"
           /\ IsCeiling(result[w][1].json.pages, resp[w][1].total,
                        Plan(w).size)
           /\ resp[w][1].total = 0 => result[w][1].json.pages = 0

\* the same with the page size within 1..100
C11_PagesIsCeilingForPositiveSize ==
    \A w \in AllWorkers :
        (/\ IsSearch(w)
         /\ Normalized(w)
         /\ result[w][1].error \notin {"KeyError", "IndexError"}
         /\ Plan(w).size >= 1)
        => /\ result[w][1].status = "ok"
           /\ IsCeiling(result[w][1].json.pages, resp[w][1].total,
                        Plan(w).size)
           /\ resp[w][1].total = 0 => result[w][1].json.pages = 0

\* ------------------------------------------------------------------------
\* C12 - a price range predicate (gte for min_price, lte for max_price) is
\* in the filter list exactly when that bound is present and is the text of
\* a number; a missing or unparsable bound adds no predicate, the plan is
\* still built, and the other filters are those of the same request without
\* price bounds.
\* ------------------------------------------------------------------------
IsNumeral(text) ==
    /\ \A i \in 1..Len(text) : IsDigit(text[i]) \/ text[i] = "."
    /\ \E i \in 1..Len(text) : IsDigit(text[i])
    /\ Cardinality({i \in 1..Len(text) : text[i] = "."}) <= 1

IsNumber(raw) == raw # None /\ IsNumeral(raw[1])

PricePredicates(filters, op) ==
    {i \in 1..Len(filters) :
        /\ filters[i].kind = "range"
        /\ filters[i].field = "price"
        /\ filters[i].op = op}

NotPrice(clause) == ~(clause.kind = "range" /\ clause.field = "price")

WithoutPrice(args) == [args EXCEPT !.min_price = None, !.max_price = None]

PriceFiltersFollowBounds(w) ==
    /\ body[w] # None
    /\ Cardinality(PricePredicates(Plan(w).filter, "gte"))
         = IF IsNumber(request[w].min_price) THEN 1 ELSE 0
    /\ Cardinality(PricePredicates(Plan(w).filter, "lte"))
         = IF IsNumber(request[w].max_price) THEN 1 ELSE 0
    /\ \A i \in 1..Len(Plan(w).filter) :
         NotPrice(Plan(w).filter[i]) \/ Plan(w).filter[i].value.k = "num"
    /\ SelectSeq(Plan(w).filter, NotPrice)
         = BodyFor(handler[w], WithoutPrice(request[w])).filter

C12_PriceRangeIffNumber ==
    \A w \in AllWorkers :
        (IsSearch(w) /\ pc[w] # "idle") => PriceFiltersFollowBounds(w)

\* the same for bounds that are missing, decimal numerals or other words
C12_PriceRangeIffDecimal ==
    \A w \in AllWorkers :
        (/\ IsSearch(w)
         /\ pc[w] # "idle"
         /\ request[w].min_price # Some(<<"n", "a", "n">>))
        => PriceFiltersFollowBounds(w)

\* ------------------------------------------------------------------------
\* C13 - the plan of a search carries the spelling-suggestion request
\* (phrase suggester on field name, size 3, gram size 3, popular mode) when
\* and only when the query text is non-empty, for each search handler.
\* ------------------------------------------------------------------------
SpellingRequest(text) ==
    [spelling |-> [text |-> text, field |-> "name", size |-> 3,
                   gram_size |-> 3, suggest_mode |-> "popular"]]

C13_SpellingIffQuery ==
    \A w \in AllWorkers :
        Planned(w) =>
            /\ QueryText(w) # <<>>
                => Plan(w).suggest = Some(SpellingRequest(QueryText(w)))
            /\ QueryText(w) = <<>> => Plan(w).suggest = None

\* C13, amended - product_search attaches the spelling-suggestion request
\* when and only when its query text is non-empty; search_api.search never
\* attaches a suggestion request to its plan.
C13_SpellingPerHandler ==
    \A w \in AllWorkers :
        Planned(w) =>
            /\ (handler[w] = "catalog.product_search" /\ QueryText(w) # <<>>)
                => Plan(w).suggest = Some(SpellingRequest(QueryText(w)))
            /\ (handler[w] = "catalog.product_search" /\ QueryText(w) = <<>>)
                => Plan(w).suggest = None
            /\ handler[w] = "api.search" => Plan(w).suggest = None

C13_Witness ==
    \E w \in AllWorkers :
        /\ Planned(w)
        /\ handler[w] = "catalog.product_search"
        /\ QueryText(w) # <<>>
        /\ Plan(w).suggest # None
        /\ pc[w] = "done"

\* ------------------------------------------------------------------------
\* C14 - every search request, and every autocomplete or suggestion request
\* with non-empty input, makes exactly one es.search call: the call is made
\* with the finished plan, no part of the response exists before it
\* returns, and no handler makes a second call.
\* ------------------------------------------------------------------------
NeedsEngine(w) ==
    \/ IsSearch(w)
    \/ /\ handler[w] \in {"api.autocomplete", "api.suggest",
                          "catalog.autocomplete"}
       /\ ~IsBlank(QueryText(w))

C14_ExactlyOneEngineCall ==
    \A w \in AllWorkers :
        /\ calls[w] <= 1
        /\ (NeedsEngine(w) /\ pc[w] # "idle") => calls[w] = 1
        /\ calls[w] = 1 => body[w] # None
        /\ pc[w] = "waiting"
            => calls[w] = 1 /\ resp[w] = None /\ result[w] = None
        /\ result[w] # None => pc[w] = "done"
        /\ resp[w] # None => result[w] # None

C14_Witness ==
    \E w \in AllWorkers :
        /\ handler[w] = "api.suggest"
        /\ ~IsBlank(QueryText(w))
        /\ pc[w] = "done"
        /\ calls[w] = 1
        /\ resp[w] # None
        /\ result[w] # None

\* ------------------------------------------------------------------------
\* C15 - request handling is stateless: under any interleaving of concurrent
\* requests the plan of a request is the plan of its parameters alone and
\* its response is the normalization of its parameters and its engine
\* response alone, so two handlings of the same request with the same
\* engine response agree whatever else is handled before, after or in
\* between.
\* ------------------------------------------------------------------------
PlanOf(name, args) ==
    IF name = "api.search" THEN Some(api_search_body(args))
    ELSE IF name = "catalog.product_search" THEN Some(catalog_body(args))
    ELSE IF name = "catalog.autocomplete"
    THEN Some(catalog_autocomplete_body(get(args.q, Some(<<>>), "str")[1]))
    ELSE IF Len(stripped_q(args)) = 0 THEN None
    ELSE IF name = "api.autocomplete"
    THEN Some(api_autocomplete_body(stripped_q(args)))
    ELSE Some(api_suggest_body(stripped_q(args)))

ResponseOf(name, args, r) ==
    IF name = "api.search" THEN api_search_response(args, r)
    ELSE IF name = "catalog.product_search"
    THEN catalog_search_response(args, r)
    ELSE IF name = "catalog.autocomplete" THEN catalog_autocomplete_response(r)
    ELSE IF name = "api.autocomplete" THEN api_autocomplete_response(r)
    ELSE api_suggest_response(r)

SameRequest(v, w) ==
    /\ pc[v] # "idle"
    /\ pc[w] # "idle"
    /\ handler[v] = handler[w]
    /\ request[v] = request[w]

C15_Stateless ==
    \A v, w \in AllWorkers :
        /\ pc[w] # "idle" => body[w] = PlanOf(handler[w], request[w])
        /\ resp[w] # None
            => result[w] = Some(ResponseOf(handler[w], request[w], resp[w][1]))
        /\ SameRequest(v, w) => body[v] = body[w]
        /\ (SameRequest(v, w) /\ resp[v] # None /\ resp[v] = resp[w])
            => result[v] = result[w]

\* both workers have finished the same request with the same engine
\* response
C15_Witness ==
    /\ SameRequest(1, 2)
    /\ handler[1] = "catalog.product_search"
    /\ request[1].q = Some(<<"a">>)
    /\ resp[1] # None
    /\ resp[1] = resp[2]
    /\ result[1] = result[2]
    /\ result[1][1].status = "ok"

\* ------------------------------------------------------------------------
\* C16 - create_index may be called repeatedly: in any sequence of calls
\* the index is created at most once and only when it does not exist, a
\* call that finds the index makes no create request and changes nothing,
\* and after any call the index exists.
\* ------------------------------------------------------------------------
CreateIndexCalled == create_index_calls' = create_index_calls + 1

CreatedAtMostOnce ==
    /\ creates <= 1
    /\ create_index_calls >= 1 => exists
    /\ creates = 1 => exists

CreatesOnlyWhenMissing ==
    /\ (CreateIndexCalled /\ exists)
        => (creates' = creates /\ exists' /\ docs' = docs)
    /\ (CreateIndexCalled /\ ~exists) => creates' = creates + 1
    /\ creates' # creates => (CreateIndexCalled /\ ~exists)

C16_CreateIndexRepeatable ==
    []CreatedAtMostOnce /\ [][CreatesOnlyWhenMissing]_vars

\* create_index was called again on an index it had created
C16_Witness == create_index_calls = 2 /\ creates = 1 /\ exists

\* ------------------------------------------------------------------------
\* C17 - index_products writes each product under its product_id: indexing
\* the list just indexed leaves the documents of the index unchanged, and
\* after indexing there is exactly one document per distinct product_id of
\* the list, for every list, products without a product_id included.
\* ------------------------------------------------------------------------
OneDocumentPerProductId ==
    /\ \A d, e \in docs :
          d.source.product_id = e.source.product_id => d = e
    /\ indexed # None =>
          \A i \in 1..Len(indexed[1]) :
              \E d \in docs : d.source.product_id = indexed[1][i].product_id

C17_ReindexInPlace ==
    /\ []OneDocumentPerProductId
    /\ [][indexed' = indexed => docs' = docs]_vars

\* the same for lists in which every product has a product_id
AllHaveIds(list) == list = None \/ WithoutId(list[1]) = 0

C17_ReindexInPlaceWithIds ==
    /\ [](generated = 0 => OneDocumentPerProductId)
    /\ [][(indexed' = indexed /\ AllHaveIds(indexed)) => docs' = docs]_vars

\* ------------------------------------------------------------------------
\* C18 - once bulk has started, ingest closes the cursor and then the
\* connection before it finishes, whether bulk returns no errors, returns
\* per-document errors or raises; a failed document never keeps the
\* remaining rows from being submitted.
\* ------------------------------------------------------------------------
C18_ClosedOnEveryPath ==
    /\ ingest_pc = "done" => (cursor = "closed" /\ conn = "closed")
    /\ conn = "closed" => cursor = "closed"
    /\ ingest_pc = "bulk" => (cursor = "open" /\ conn = "open")
    /\ (ingest_pc \notin {"idle", "bulk"} /\ raised # "Exception")
        => Len(submitted) = rows
    /\ raised \in {"none", "Exception"}

\* ingest has finished after a document failed and a later one was
\* submitted
C18_Witness ==
    /\ ingest_pc = "done"
    /\ raised = "none"
    /\ cursor = "closed"
    /\ conn = "closed"
    /\ \E i, j \in 1..Len(submitted) :
          i < j /\ submitted[i] = "error" /\ submitted[j] = "ok"

\* ingest has finished after bulk raised
C18_WitnessRaised ==
    ingest_pc = "done" /\ raised = "Exception" /\ conn = "closed"

====
